---- MODULE Spec2Model ----
(***************************************************************************)
(* Model of the job orchestration core of the YouTube transcriber          *)
(* (web-transcriber/src/server/transcriber.ts, class Transcriber, the      *)
(* first of the two drafts held in that file).                             *)
(*                                                                         *)
(* One step of the model is one run-to-completion turn of the Node event   *)
(* loop: an event handler together with every promise continuation         *)
(* (microtask) it makes runnable.  The environment (subprocess exit codes, *)
(* spawn failures, output text, browser automation, HTTP responses, the    *)
(* wall clock, file-system failures) is chosen nondeterministically.       *)
(***************************************************************************)
EXTENDS Integers, Sequences, FiniteSets, TLC

(* ------------------------------ bounds -------------------------------- *)

\* new Date().getTime() returns a value in 1..MaxTime (the wall clock is not
\* monotonic).
MaxTime == 2

\* Job ids uuidv4() can return.
JobIds == {"j1", "j2"}

\* Percentages a "[download]  NN%" token of yt-dlp can carry.
PercentTokens == {25, 75}

\* percent_complete values the remote service can report while processing:
\* 5 is exactly the minimum delta above 0, 46 is just more than it above 40.
PollPercents == {5, 40, 46}

\* Percentages the ytdl-core progress event can compute.
YtdlPercents == {0, 50}

\* Error texts the remote service can report with status 'error'.
RemoteErrors == {"bad audio"}

Times == 1..MaxTime

(* --------------------------- source references ------------------------ *)

UrlWatch    == "https://www.youtube.com/watch?v=dQw4w9WgXcQ"
UrlPlaylist == "https://www.youtube.com/playlist?list=PL123"
UrlVimeo    == "https://vimeo.com/12345"
Urls        == {UrlWatch, UrlPlaylist, UrlVimeo}

NoId == "null"

\* /^(https?:\/\/)?(www\.)?(youtube\.com|youtu\.be)\/.+$/ on the sample URLs.
MatchesYouTubeUrl(url) == url \in {UrlWatch, UrlPlaylist}

\* The 11-character group 7 of the id pattern, or null: the playlist URL has
\* none of youtu.be/, v/, /u/x/, embed/, watch? in it.
extractVideoId(url) == IF url = UrlWatch THEN "dQw4w9WgXcQ" ELSE NoId

(* ------------------------------- files -------------------------------- *)

\* videoTitle = `video_${videoId}_${timestamp}`
VideoTitle(videoId, timestamp) == [id |-> videoId, ts |-> timestamp]

AudioPath(title)      == [dir |-> "audios", stem |-> title.id, ts |-> title.ts, ext |-> ".mp3"]
TranscriptPath(title) == [dir |-> "transcricoes", stem |-> title.id, ts |-> title.ts, ext |-> ".txt"]
SimplePath(title)     == [dir |-> "transcricoes", stem |-> title.id, ts |-> title.ts, ext |-> "_simples.txt"]
CookiesPath(jobId)    == [dir |-> "temp", stem |-> jobId, ts |-> 0, ext |-> "youtube_cookies.txt"]

NoTitle == VideoTitle(NoId, 0)

(* ------------------------------ registry ------------------------------ *)

\* undefined / empty string: falsy in `if (error)` and `if (result)`.
NoValue == <<>>

NewJob(jobId, videoUrl) ==
  [id |-> jobId, videoUrl |-> videoUrl, status |-> "pending",
   download |-> 0, transcription |-> 0, result |-> NoValue, error |-> NoValue]

\* r is the program state threaded through one handler (see World below): the
\* update changes the job map and appends the job_update broadcast to r.out.
\* (mutant) updateJobStatus registers a job for an id it does not find
updateJobStatusUpserts(r, jobId, status, error, result) ==
  LET job == IF jobId \in DOMAIN r.jobs THEN r.jobs[jobId] ELSE NewJob(jobId, "")
      nj  == [job EXCEPT !.status = status,
                         !.error  = IF error # NoValue THEN error ELSE @,
                         !.result = IF result # NoValue THEN result ELSE @]
  IN [r EXCEPT !.jobs = (jobId :> nj) @@ @, !.out = Append(@, nj)]

\* (mutant) updateJobStatus lacks the io.emit
updateJobStatusSilent(r, jobId, status, error, result) ==
  IF jobId \in DOMAIN r.jobs
  THEN LET job == r.jobs[jobId]
           nj  == [job EXCEPT !.status = status,
                              !.error  = IF error # NoValue THEN error ELSE @,
                              !.result = IF result # NoValue THEN result ELSE @]
       IN [r EXCEPT !.jobs[jobId] = nj]
  ELSE r

updateJobStatus(r, jobId, status, error, result) ==
  IF jobId \in DOMAIN r.jobs
  THEN LET job == r.jobs[jobId]
           nj  == [job EXCEPT !.status = status,
                              !.error  = IF error # NoValue THEN error ELSE @,
                              !.result = IF result # NoValue THEN result ELSE @]
       IN [r EXCEPT !.jobs[jobId] = nj, !.out = Append(@, nj)]
  ELSE r

\* (mutant) updateJobProgress adds the percentage to the stored one
updateJobProgressAdds(r, jobId, type, percent) ==
  IF jobId \in DOMAIN r.jobs
  THEN LET job == r.jobs[jobId]
           nj  == IF type = "download"
                  THEN [job EXCEPT !.download = @ + percent]
                  ELSE [job EXCEPT !.transcription = @ + percent]
       IN [r EXCEPT !.jobs[jobId] = nj, !.out = Append(@, nj)]
  ELSE r

updateJobProgress(r, jobId, type, percent) ==
  IF jobId \in DOMAIN r.jobs
  THEN LET job == r.jobs[jobId]
           nj  == IF type = "download"
                  THEN [job EXCEPT !.download = percent]
                  ELSE [job EXCEPT !.transcription = percent]
       IN [r EXCEPT !.jobs[jobId] = nj, !.out = Append(@, nj)]
  ELSE r

(* ------------------------------- state -------------------------------- *)

\* possibleBrowsers on a non-Windows platform: chrome, firefox, opera.
NumBrowsers == 3

\* One acquisition attempt: <<kind, idx>>; idx is the browser profile's place
\* in possibleBrowsers, or which handler of the final attempt started the
\* alternative download (1: 'error', 2: 'close'), else 0.
Attempts ==
  {<<"simple", 0>>, <<"chrome", 0>>, <<"final", 0>>, <<"ytdlcore", 0>>}
    \cup {<<"browser", i>> : i \in 1..NumBrowsers}
    \cup {<<"alt", k>> : k \in 1..2}

\* The place of an attempt's strategy in downloadVideo's order.
StrategyRank(a) ==
  CASE a[1] = "simple"                      -> 1
    [] a[1] = "chrome"                      -> 2
    [] a[1] \in {"browser", "final", "alt"} -> 3
    [] a[1] = "ytdlcore"                    -> 4

VARIABLES
  apiKey,        \* config.apiKey
  jobs,          \* this.jobs: job id -> TranscriptionJob
  emits,         \* the job_update broadcasts of the last handler, in order
  reply,         \* what the last startTranscription call gave its caller
  submitsLeft,   \* submissions the environment may still make
  fs,            \* the paths that exist on disk
  crashed,       \* the process died of an unhandled 'error' event
  pc,            \* per job: the await the task is suspended at
  title,         \* per job: videoTitle of processVideo
  procs,         \* per job: child processes whose events are still to come
  chromeSt,      \* per job: the await downloadWithChromeCookies is suspended at
  browserOpen,   \* per job: a puppeteer browser is open
  ytdl,          \* per job: state of the ytdl-core download
  lastPercent,   \* per job: lastPercent of downloadWithYtdlCore
  lastProgress,  \* per job: lastProgress of waitForTranscriptionCompletion
  lastPoll,      \* per job: the latest poll response (status and error text)
  invoked,       \* per job: how often each acquisition attempt was started
  succeeded,     \* per job: attempts that exited 0 and left the output file
  clientCalls,   \* per job: transcription-service requests made
  client,        \* the browser App: its socket, its requests, its React state
  call           \* a formatter call: the function, its argument, its result

vars == <<apiKey, jobs, emits, reply, submitsLeft, fs, crashed, pc, title, procs,
          chromeSt, browserOpen, ytdl, lastPercent, lastProgress, lastPoll,
          invoked, succeeded, clientCalls, client, call>>

\* uuidv4(): an id not in use.  Ids are opaque and interchangeable, so they
\* are handed out in a fixed order.
uuidv4 == IF "j1" \notin DOMAIN jobs THEN "j1" ELSE "j2"

\* No browser has the App open: no socket, no request, empty React state.
NoClient ==
  [connected |-> FALSE, socket |-> <<>>, captured |-> <<>>, activeJob |-> <<>>,
   jobs |-> <<>>, error |-> <<>>, fetch |-> "none", fetched |-> <<>>,
   start |-> "idle", got |-> <<>>]

\* No formatter call is being looked at.
NoCall == [fn |-> "none", arg |-> <<>>, ret |-> <<>>]

\* io.emit('job_update', job): each broadcast goes, in order, to the socket
\* of a connected client.
Deliver(c, out) == IF c.connected THEN [c EXCEPT !.socket = @ \o out] ELSE c

\* The state a handler starts from; out collects its broadcasts.
World ==
  [apiKey |-> apiKey, jobs |-> jobs, out |-> <<>>, reply |-> reply,
   submitsLeft |-> submitsLeft, fs |-> fs, crashed |-> crashed, pc |-> pc,
   title |-> title, procs |-> procs, chromeSt |-> chromeSt,
   browserOpen |-> browserOpen, ytdl |-> ytdl, lastPercent |-> lastPercent,
   lastProgress |-> lastProgress, lastPoll |-> lastPoll, invoked |-> invoked,
   succeeded |-> succeeded, clientCalls |-> clientCalls, client |-> client,
   call |-> call]

\* The state a handler leaves.
Commit(w) ==
  /\ apiKey' = w.apiKey
  /\ jobs' = w.jobs
  /\ emits' = w.out
  /\ reply' = w.reply
  /\ submitsLeft' = w.submitsLeft
  /\ fs' = w.fs
  /\ crashed' = w.crashed
  /\ pc' = w.pc
  /\ title' = w.title
  /\ procs' = w.procs
  /\ chromeSt' = w.chromeSt
  /\ browserOpen' = w.browserOpen
  /\ ytdl' = w.ytdl
  /\ lastPercent' = w.lastPercent
  /\ lastProgress' = w.lastProgress
  /\ lastPoll' = w.lastPoll
  /\ invoked' = w.invoked
  /\ succeeded' = w.succeeded
  /\ clientCalls' = w.clientCalls
  /\ client' = Deliver(w.client, w.out)
  /\ call' = w.call

\* What an earlier run of the server left in transcricoes/: the full
\* transcript of a video, whose speaker-grouped companion could not be
\* written.  (No handler reads the companion, so a run that left both files
\* behaves the same.)
StaleTitle == VideoTitle(extractVideoId(UrlWatch), 1)
StaleFiles == {TranscriptPath(StaleTitle)}
NoPoll == [status |-> "none", error |-> ""]

Init ==
  /\ apiKey \in {"", "key"}
  /\ jobs = <<>>
  /\ emits = <<>>
  /\ reply = [kind |-> "none", val |-> ""]
  /\ submitsLeft = 1
  /\ fs = StaleFiles
  /\ crashed = FALSE
  /\ pc = [j \in JobIds |-> "idle"]
  /\ title = [j \in JobIds |-> NoTitle]
  /\ procs = [j \in JobIds |-> {}]
  /\ chromeSt = [j \in JobIds |-> "none"]
  /\ browserOpen = [j \in JobIds |-> FALSE]
  /\ ytdl = [j \in JobIds |-> "none"]
  /\ lastPercent = [j \in JobIds |-> 0]
  /\ lastProgress = [j \in JobIds |-> 0]
  /\ lastPoll = [j \in JobIds |-> NoPoll]
  /\ invoked = [j \in JobIds |-> [a \in Attempts |-> 0]]
  /\ succeeded = [j \in JobIds |-> {}]
  /\ clientCalls = [j \in JobIds |-> {}]
  /\ client = NoClient
  /\ call = NoCall

(* ---------------------------- the job's task -------------------------- *)

\* spawn(...): the child either runs, or fails to start and emits 'error' on
\* the next tick.
Spawn(w, j, kind, idx, spawnOk) ==
  [w EXCEPT !.procs[j] = @ \cup {[kind |-> kind, idx |-> idx,
                                  st |-> IF spawnOk THEN "running" ELSE "spawnfail"]}]

Invoke(w, j, a) == [w EXCEPT !.invoked[j][a] = @ + 1]

\* processVideo's catch: the job becomes 'error' and the task ends.
processVideoCatch(w, j, message) ==
  [updateJobStatus(w, j, "error", message, NoValue) EXCEPT !.pc[j] = "done"]

\* transcribeAudio's catch, then processVideo's.
transcribeAudioCatch(w, j, message) ==
  processVideoCatch(w, j, <<"Transcription error: ">> \o message)

\* transcribeAudio up to the upload request of uploadAudio.
transcribeAudio(w, j) ==
  LET w1 == updateJobStatus(w, j, "transcribing", NoValue, NoValue)
  IN IF AudioPath(w1.title[j]) \notin w1.fs
     THEN transcribeAudioCatch(w1, j, <<"Audio file not found: ">>)
     ELSE [w1 EXCEPT !.pc[j] = "upload", !.clientCalls[j] = @ \cup {"upload"}]

\* (mutant) processVideo lacks the check of the audio file after the download
processVideoAfterDownloadUnchecked(w, j) == transcribeAudio(w, j)

\* processVideo once downloadVideo has returned.
processVideoAfterDownload(w, j) ==
  IF AudioPath(w.title[j]) \notin w.fs
  THEN processVideoCatch(w, j, <<"Audio file not created after download: ">>)
  ELSE transcribeAudio(w, j)

downloadSimple(w, j, spawnOk) ==
  Spawn(Invoke([w EXCEPT !.pc[j] = "simple"], j, <<"simple", 0>>),
        j, "simple", 0, spawnOk)

\* downloadWithChromeCookies up to `await puppeteer.launch`.
downloadWithChromeCookies(w, j) ==
  Invoke([w EXCEPT !.pc[j] = "chrome", !.chromeSt[j] = "launch"], j, <<"chrome", 0>>)

downloadWithYtDlpAlternative(w, j, k, spawnOk) ==
  Spawn(Invoke(updateJobStatus(w, j, "downloading", NoValue, NoValue), j, <<"alt", k>>),
        j, "alt", k, spawnOk)

tryFinalDownload(w, j, spawnOk) ==
  Spawn(Invoke(w, j, <<"final", 0>>), j, "final", 0, spawnOk)

\* (mutant) the loop ends one profile early
tryDownloadWithBrowsersSkipsLast(w, j, browserIndex, spawnOk) ==
  IF browserIndex >= NumBrowsers
  THEN tryFinalDownload(w, j, spawnOk)
  ELSE Spawn(Invoke(w, j, <<"browser", browserIndex>>), j, "browser", browserIndex, spawnOk)

tryDownloadWithBrowsers(w, j, browserIndex, spawnOk) ==
  IF browserIndex > NumBrowsers
  THEN tryFinalDownload(w, j, spawnOk)
  ELSE Spawn(Invoke(w, j, <<"browser", browserIndex>>), j, "browser", browserIndex, spawnOk)

downloadWithYtDlp(w, j, spawnOk) ==
  tryDownloadWithBrowsers(
    [updateJobStatus(w, j, "downloading", NoValue, NoValue) EXCEPT !.pc[j] = "ytdlp"],
    j, 1, spawnOk)

\* downloadWithYtdlCore up to the ytdl.getInfo request.
downloadWithYtdlCore(w, j) ==
  Invoke([updateJobStatus(w, j, "downloading", NoValue, NoValue)
            EXCEPT !.pc[j] = "ytdlcore", !.ytdl[j] = "info"], j, <<"ytdlcore", 0>>)

\* Error texts are modelled as sequences of their parts (prefix, cause), the
\* Portuguese ones written without diacritics.

\* (mutant) the exhaustion error drops the cause
ExhaustedMessageNoCause(message) ==
  <<"Nao foi possivel baixar o video apos multiplas tentativas: ">>

ExhaustedMessage(message) ==
  <<"Nao foi possivel baixar o video apos multiplas tentativas: ">> \o message

\* downloadVideo resumed by the rejection of the strategy it awaits.
downloadVideoCatch(w, j, strategy, message, spawnOk) ==
  CASE strategy = "simple"   -> downloadWithChromeCookies(w, j)
    [] strategy = "chrome"   -> downloadWithYtDlp(w, j, spawnOk)
    [] strategy = "ytdlp"    -> downloadWithYtdlCore(w, j)
    [] strategy = "ytdlcore" -> processVideoCatch(w, j, ExhaustedMessage(message))

\* (mutant) downloadVideo lacks the `return` after a strategy's success
ResolveFallsThrough(w, j, strategy) ==
  IF w.pc[j] # strategy THEN w
  ELSE IF strategy = "ytdlcore" THEN processVideoAfterDownload(w, j)
  ELSE downloadVideoCatch(w, j, strategy, NoValue, TRUE)

\* resolve() of the promise of `strategy`: downloadVideo returns, unless the
\* promise was settled before.
Resolve(w, j, strategy) ==
  IF w.pc[j] = strategy THEN processVideoAfterDownload(w, j) ELSE w

\* reject(err) of the promise of `strategy`.
Reject(w, j, strategy, message, spawnOk) ==
  IF w.pc[j] = strategy THEN downloadVideoCatch(w, j, strategy, message, spawnOk) ELSE w

\* (mutant) processVideo lacks the `return` of the existing-transcript branch
processVideoFallsThrough(w, j, videoUrl, timestamp, spawnOk) ==
  LET videoId == extractVideoId(videoUrl)
      t       == VideoTitle(videoId, timestamp)
      w1      == [w EXCEPT !.title[j] = t]
  IN IF videoId = NoId
     THEN processVideoCatch(w, j, <<"Could not extract video ID from URL: ", videoUrl>>)
     ELSE IF TranscriptPath(t) \in w.fs
     THEN downloadSimple(
            updateJobStatus(w1, j, "completed", NoValue, <<TranscriptPath(t), SimplePath(t)>>),
            j, spawnOk)
     ELSE downloadSimple(w1, j, spawnOk)

\* processVideo up to its first await.
processVideo(w, j, videoUrl, timestamp, spawnOk) ==
  LET videoId == extractVideoId(videoUrl)
      t       == VideoTitle(videoId, timestamp)
      w1      == [w EXCEPT !.title[j] = t]
  IN IF videoId = NoId
     THEN processVideoCatch(w, j, <<"Could not extract video ID from URL: ", videoUrl>>)
     ELSE IF TranscriptPath(t) \in w.fs
     THEN [updateJobStatus(w1, j, "completed", NoValue, <<TranscriptPath(t), SimplePath(t)>>)
             EXCEPT !.pc[j] = "done"]
     ELSE downloadSimple(w1, j, spawnOk)

Throw(w, message) == [w EXCEPT !.reply = [kind |-> "throw", val |-> message]]

\* (mutant) startTranscription replaces the registry by the new job
startTranscriptionForgets(videoUrl, jobId, timestamp, spawnOk) ==
  /\ ~crashed
  /\ submitsLeft > 0
  /\ jobId \notin DOMAIN jobs
  /\ LET w == [World EXCEPT !.submitsLeft = @ - 1]
     IN Commit(
          IF w.apiKey = "" THEN Throw(w, "AssemblyAI API key not found")
          ELSE IF ~MatchesYouTubeUrl(videoUrl) THEN Throw(w, "Invalid YouTube URL")
          ELSE processVideo(
                 [w EXCEPT !.jobs = (jobId :> NewJob(jobId, videoUrl)),
                           !.reply = [kind |-> "id", val |-> jobId]],
                 jobId, videoUrl, timestamp, spawnOk))

\* (mutant) startTranscription registers the job before it validates the URL
startTranscriptionValidatesLate(videoUrl, jobId, timestamp, spawnOk) ==
  /\ ~crashed
  /\ submitsLeft > 0
  /\ jobId \notin DOMAIN jobs
  /\ LET w  == [World EXCEPT !.submitsLeft = @ - 1]
         w1 == [w EXCEPT !.jobs = (jobId :> NewJob(jobId, videoUrl)) @@ w.jobs]
     IN Commit(
          IF w.apiKey = "" THEN Throw(w, "AssemblyAI API key not found")
          ELSE IF ~MatchesYouTubeUrl(videoUrl) THEN Throw(w1, "Invalid YouTube URL")
          ELSE processVideo([w1 EXCEPT !.reply = [kind |-> "id", val |-> jobId]],
                            jobId, videoUrl, timestamp, spawnOk))

\* config.ffmpegPath falls back to a default and is never empty, so the
\* 'FFmpeg path not found' throw cannot happen.
startTranscription(videoUrl, jobId, timestamp, spawnOk) ==
  /\ ~crashed
  /\ submitsLeft > 0
  /\ jobId \notin DOMAIN jobs
  /\ LET w == [World EXCEPT !.submitsLeft = @ - 1]
     IN Commit(
          IF w.apiKey = "" THEN Throw(w, "AssemblyAI API key not found")
          ELSE IF ~MatchesYouTubeUrl(videoUrl) THEN Throw(w, "Invalid YouTube URL")
          ELSE processVideo(
                 [w EXCEPT !.jobs = (jobId :> NewJob(jobId, videoUrl)) @@ w.jobs,
                           !.reply = [kind |-> "id", val |-> jobId]],
                 jobId, videoUrl, timestamp, spawnOk))

(* ------------------------ subprocess event handlers ------------------- *)

AudioExists(w, j) == AudioPath(w.title[j]) \in w.fs

\* The success branch shared by every 'close' handler: progress 100, resolve.
Succeed(w, j, a) ==
  [updateJobProgress(w, j, "download", 100) EXCEPT !.succeeded[j] = @ \cup {a}]

\* stdout 'data' carrying a "[download]  NN%" token (the same handler in
\* every yt-dlp strategy).
stdoutOnData(w, j, percent) == updateJobProgress(w, j, "download", percent)

downloadSimpleOnClose(w, j, code, spawnOk) ==
  IF code = 0
  THEN IF AudioExists(w, j)
       THEN Resolve(Succeed(w, j, <<"simple", 0>>), j, "simple")
       ELSE Reject(w, j, "simple", <<"Arquivo de audio nao foi criado: ">>, spawnOk)
  ELSE Reject(w, j, "simple", <<"Processo yt-dlp encerrou com codigo ">>, spawnOk)

\* downloadSimple registers no 'error' listener: the event is thrown as an
\* uncaught exception and the process dies.
downloadSimpleOnError(w, j, spawnOk) == [w EXCEPT !.crashed = TRUE]

downloadWithChromeCookiesOnClose(w, j, code, spawnOk) ==
  LET w1 == [w EXCEPT !.fs = @ \ {CookiesPath(j)}]
  IN IF code = 0
     THEN IF AudioExists(w1, j)
          THEN Resolve(Succeed(w1, j, <<"chrome", 0>>), j, "chrome")
          ELSE Reject(w1, j, "chrome", <<"Audio file not created: ">>, spawnOk)
     ELSE Reject(w1, j, "chrome",
                 <<"yt-dlp process with Chrome cookies exited with code ">>, spawnOk)

downloadWithChromeCookiesOnError(w, j, spawnOk) ==
  Reject(w, j, "chrome", <<"yt-dlp error with Chrome cookies: ">>, spawnOk)

tryDownloadWithBrowsersOnClose(w, j, browserIndex, code, spawnOk) ==
  IF code = 0 /\ AudioExists(w, j)
  THEN Resolve(Succeed(w, j, <<"browser", browserIndex>>), j, "ytdlp")
  ELSE tryDownloadWithBrowsers(w, j, browserIndex + 1, spawnOk)

tryDownloadWithBrowsersOnError(w, j, spawnOk) ==
  Reject(w, j, "ytdlp", <<"yt-dlp error: ">>, spawnOk)

tryFinalDownloadOnClose(w, j, code, spawnOk) ==
  IF code = 0 /\ AudioExists(w, j)
  THEN Resolve(Succeed(w, j, <<"final", 0>>), j, "ytdlp")
  ELSE downloadWithYtDlpAlternative(w, j, 2, spawnOk)

tryFinalDownloadOnError(w, j, spawnOk) ==
  downloadWithYtDlpAlternative(w, j, 1, spawnOk)

\* The alternative download has a promise of its own, chained into the
\* strategy's by .then(resolve).catch(reject); `settled` says its 'error'
\* handler has rejected it already.
downloadWithYtDlpAlternativeOnClose(w, j, k, settled, code, spawnOk) ==
  IF code = 0
  THEN IF AudioExists(w, j)
       THEN LET w1 == Succeed(w, j, <<"alt", k>>)
            IN IF settled THEN w1 ELSE Resolve(w1, j, "ytdlp")
       ELSE IF settled THEN w
            ELSE Reject(w, j, "ytdlp", <<"Audio file not created: ">>, spawnOk)
  ELSE IF settled THEN w
       ELSE Reject(w, j, "ytdlp", <<"yt-dlp alternative process exited with code ">>, spawnOk)

downloadWithYtDlpAlternativeOnError(w, j, spawnOk) ==
  Reject(w, j, "ytdlp", <<"yt-dlp alternative error: ">>, spawnOk)

OnError(w, j, p, spawnOk) ==
  CASE p.kind = "simple"  -> downloadSimpleOnError(w, j, spawnOk)
    [] p.kind = "chrome"  -> downloadWithChromeCookiesOnError(w, j, spawnOk)
    [] p.kind = "browser" -> tryDownloadWithBrowsersOnError(w, j, spawnOk)
    [] p.kind = "final"   -> tryFinalDownloadOnError(w, j, spawnOk)
    [] p.kind = "alt"     -> downloadWithYtDlpAlternativeOnError(w, j, spawnOk)

OnClose(w, j, p, code, spawnOk) ==
  CASE p.kind = "simple"  -> downloadSimpleOnClose(w, j, code, spawnOk)
    [] p.kind = "chrome"  -> downloadWithChromeCookiesOnClose(w, j, code, spawnOk)
    [] p.kind = "browser" -> tryDownloadWithBrowsersOnClose(w, j, p.idx, code, spawnOk)
    [] p.kind = "final"   -> tryFinalDownloadOnClose(w, j, code, spawnOk)
    [] p.kind = "alt"     -> downloadWithYtDlpAlternativeOnClose(
                               w, j, p.idx, p.st = "errored", code, spawnOk)

\* A running child prints a progress token.
StdoutData(j, p, percent) ==
  /\ ~crashed
  /\ p \in procs[j]
  /\ p.st = "running"
  /\ Commit(stdoutOnData(World, j, percent))

\* A child that could not be spawned emits 'error'; its 'close' follows.
ProcError(j, p, spawnOk) ==
  /\ ~crashed
  /\ p \in procs[j]
  /\ p.st = "spawnfail"
  /\ Commit(OnError([World EXCEPT !.procs[j] = (@ \ {p}) \cup {[p EXCEPT !.st = "errored"]}],
                    j, p, spawnOk))

\* A child emits 'close': a child that ran exits with code 0 or 1, having
\* written the output file or not; one that never started closes with a
\* negative code.
ProcClose(j, p, code, wrote, spawnOk) ==
  /\ ~crashed
  /\ p \in procs[j]
  /\ \/ p.st = "running" /\ code \in {0, 1}
     \/ p.st = "errored" /\ code = -2 /\ ~wrote
  /\ Commit(OnClose([World EXCEPT !.procs[j] = @ \ {p},
                                  !.fs = IF wrote THEN @ \cup {AudioPath(title[j])} ELSE @],
                    j, p, code, spawnOk))

(* --------------------------- headless browser ------------------------- *)

\* The catch of downloadWithChromeCookies: close the browser if one is open
\* (a failure to close is logged), remove the cookie file, reject.
downloadWithChromeCookiesCatch(w, j, closeOk, spawnOk) ==
  Reject([w EXCEPT !.browserOpen[j] = IF closeOk THEN FALSE ELSE @,
                   !.fs = @ \ {CookiesPath(j)},
                   !.chromeSt[j] = "done"],
         j, "chrome", <<"puppeteer: ">>, spawnOk)

\* `await puppeteer.launch(...)` settles.
PuppeteerLaunch(j, ok, spawnOk) ==
  /\ ~crashed
  /\ pc[j] = "chrome"
  /\ chromeSt[j] = "launch"
  /\ Commit(IF ok
            THEN [World EXCEPT !.browserOpen[j] = TRUE, !.chromeSt[j] = "browse"]
            ELSE downloadWithChromeCookiesCatch(World, j, TRUE, spawnOk))

\* The page automation (newPage ... page.cookies) ends: the cookie file is
\* written and browser.close() awaited, or a step throws.
PuppeteerBrowse(j, ok, closeOk, spawnOk) ==
  /\ ~crashed
  /\ pc[j] = "chrome"
  /\ chromeSt[j] = "browse"
  /\ Commit(IF ok
            THEN [World EXCEPT !.fs = @ \cup {CookiesPath(j)}, !.chromeSt[j] = "closing"]
            ELSE downloadWithChromeCookiesCatch(World, j, closeOk, spawnOk))

\* `await browser.close()` settles; on success yt-dlp is spawned with the cookies.
PuppeteerClose(j, ok, closeOk, spawnOk) ==
  /\ ~crashed
  /\ pc[j] = "chrome"
  /\ chromeSt[j] = "closing"
  /\ Commit(IF ok
            THEN Spawn([World EXCEPT !.browserOpen[j] = FALSE, !.chromeSt[j] = "proc"],
                       j, "chrome", 0, spawnOk)
            ELSE downloadWithChromeCookiesCatch(World, j, closeOk, spawnOk))

(* ------------------------------ ytdl-core ----------------------------- *)

\* ytdl.getInfo settles: with audio formats (the download stream and the
\* output file stream are created), or rejected / without audio formats.
YtdlGetInfo(j, ok) ==
  /\ ~crashed
  /\ ytdl[j] = "info"
  /\ Commit(IF ok
            THEN [World EXCEPT !.ytdl[j] = "streaming", !.lastPercent[j] = 0,
                               !.fs = @ \cup {AudioPath(title[j])}]
            ELSE Reject([World EXCEPT !.ytdl[j] = "ended"], j, "ytdlcore",
                        <<"Erro ao obter informacoes do video: ">>, TRUE))

\* stream 'progress'.
YtdlProgress(j, percent) ==
  /\ ~crashed
  /\ ytdl[j] = "streaming"
  /\ Commit(IF percent > lastPercent[j]
            THEN updateJobProgress([World EXCEPT !.lastPercent[j] = percent],
                                   j, "download", percent)
            ELSE World)

\* stream 'error' or output file 'error'.
YtdlError(j, which) ==
  /\ ~crashed
  /\ ytdl[j] = "streaming"
  /\ Commit(Reject([World EXCEPT !.ytdl[j] = "ended"], j, "ytdlcore",
                   IF which = "stream" THEN <<"Erro no download: ">>
                   ELSE <<"Erro ao salvar arquivo: ">>, TRUE))

\* output file 'finish'.
YtdlFinish(j) ==
  /\ ~crashed
  /\ ytdl[j] = "streaming"
  /\ LET w == [World EXCEPT !.ytdl[j] = "ended"]
     IN Commit(IF AudioExists(w, j)
               THEN Resolve(Succeed(w, j, <<"ytdlcore", 0>>), j, "ytdlcore")
               ELSE Reject(w, j, "ytdlcore", <<"Arquivo de audio nao criado: ">>, TRUE))

(* --------------------------- transcription ---------------------------- *)

\* The minimum change of percent_complete that is written to the job.
MinDelta == 5

\* (mutant) transcribeAudio goes on to the submission whatever the upload did
UploadDoneIgnoresFailure(j, ok) ==
  /\ ~crashed
  /\ pc[j] = "upload"
  /\ Commit([World EXCEPT !.pc[j] = "submit", !.clientCalls[j] = @ \cup {"submit"}])

\* The upload request of uploadAudio settles.
UploadDone(j, ok) ==
  /\ ~crashed
  /\ pc[j] = "upload"
  /\ Commit(IF ok
            THEN [World EXCEPT !.pc[j] = "submit", !.clientCalls[j] = @ \cup {"submit"}]
            ELSE transcribeAudioCatch(World, j, <<"upload failed">>))

\* The request of startTranscriptionJob settles; on success the first poll
\* request of waitForTranscriptionCompletion is sent.
SubmitDone(j, ok) ==
  /\ ~crashed
  /\ pc[j] = "submit"
  /\ Commit(IF ok
            THEN [World EXCEPT !.pc[j] = "poll", !.lastProgress[j] = 0,
                               !.clientCalls[j] = @ \cup {"poll"}]
            ELSE transcribeAudioCatch(World, j, <<"submit failed">>))

\* saveTranscript writes the full transcript, then the speaker-grouped one;
\* either write can fail.
saveTranscript(w, j, save) ==
  LET t == w.title[j]
  IN [w EXCEPT !.fs = @ \cup (CASE save = "ok"    -> {TranscriptPath(t), SimplePath(t)}
                                [] save = "fail2" -> {TranscriptPath(t)}
                                [] save = "fail1" -> {})]

\* processVideo once transcribeAudio has returned: 'completed' with the
\* result paths, then removal of the audio file, inside the same try.
processVideoAfterTranscribe(w, j, unlinkOk) ==
  LET t  == w.title[j]
      w1 == updateJobStatus(w, j, "completed", NoValue, <<TranscriptPath(t), SimplePath(t)>>)
  IN IF AudioExists(w1, j) /\ unlinkOk
     THEN [w1 EXCEPT !.fs = @ \ {AudioPath(t)}, !.pc[j] = "done"]
     ELSE processVideoCatch(w1, j, <<"unlink: ">>)

\* transcribeAudio once waitForTranscriptionCompletion has returned.
transcribeAudioAfterPoll(w, j, save, unlinkOk) ==
  IF save = "ok"
  THEN processVideoAfterTranscribe(saveTranscript(w, j, save), j, unlinkOk)
  ELSE transcribeAudioCatch(saveTranscript(w, j, save), j, <<"Failed to save transcript: ">>)

\* (mutant) a failed poll request is thrown out of the polling loop
waitForTranscriptionCompletionNoRetry(w, j, status, error, percent, save, unlinkOk) ==
  LET w0 == [w EXCEPT !.lastPoll[j] = [status |-> status, error |-> error]]
  IN CASE status = "completed" ->
            transcribeAudioAfterPoll(updateJobProgress(w0, j, "transcription", 100),
                                     j, save, unlinkOk)
       [] status = "error" -> w0
       [] status = "request failed" -> transcribeAudioCatch(w0, j, <<"request failed">>)
       [] OTHER ->
            IF (IF percent > w0.lastProgress[j] THEN percent - w0.lastProgress[j]
                ELSE w0.lastProgress[j] - percent) > MinDelta
            THEN updateJobProgress([w0 EXCEPT !.lastProgress[j] = percent],
                                   j, "transcription", percent)
            ELSE w0

\* (mutant) the progress is written when the change is at least the minimum
waitForTranscriptionCompletionAtLeast(w, j, status, error, percent, save, unlinkOk) ==
  LET w0 == [w EXCEPT !.lastPoll[j] = [status |-> status, error |-> error]]
  IN CASE status = "completed" ->
            transcribeAudioAfterPoll(updateJobProgress(w0, j, "transcription", 100),
                                     j, save, unlinkOk)
       [] status = "error" -> w0
       [] status = "request failed" -> w0
       [] OTHER ->
            IF (IF percent > w0.lastProgress[j] THEN percent - w0.lastProgress[j]
                ELSE w0.lastProgress[j] - percent) >= MinDelta
            THEN updateJobProgress([w0 EXCEPT !.lastProgress[j] = percent],
                                   j, "transcription", percent)
            ELSE w0

\* One iteration of the polling loop, from the response to the next request.
waitForTranscriptionCompletion(w, j, status, error, percent, save, unlinkOk) ==
  LET w0 == [w EXCEPT !.lastPoll[j] = [status |-> status, error |-> error]]
  IN CASE status = "completed" ->
            transcribeAudioAfterPoll(updateJobProgress(w0, j, "transcription", 100),
                                     j, save, unlinkOk)
       [] status = "error" ->
            \* throw new Error(`Transcription error: ...`) is raised inside the
            \* loop's own try: its catch logs it, sleeps and polls again.
            w0
       [] status = "request failed" -> w0
       [] OTHER ->
            IF (IF percent > w0.lastProgress[j] THEN percent - w0.lastProgress[j]
                ELSE w0.lastProgress[j] - percent) > MinDelta
            THEN updateJobProgress([w0 EXCEPT !.lastProgress[j] = percent],
                                   j, "transcription", percent)
            ELSE w0

PollCompleted(j, save, unlinkOk) ==
  /\ ~crashed
  /\ pc[j] = "poll"
  /\ Commit(waitForTranscriptionCompletion(World, j, "completed", "", 100, save, unlinkOk))

PollError(j, error) ==
  /\ ~crashed
  /\ pc[j] = "poll"
  /\ Commit(waitForTranscriptionCompletion(World, j, "error", error, 0, "ok", TRUE))

PollProcessing(j, percent) ==
  /\ ~crashed
  /\ pc[j] = "poll"
  /\ Commit(waitForTranscriptionCompletion(World, j, "processing", "", percent, "ok", TRUE))

PollRequestFailed(j) ==
  /\ ~crashed
  /\ pc[j] = "poll"
  /\ Commit(waitForTranscriptionCompletion(World, j, "request failed", "", 0, "ok", TRUE))

Next ==
  \/ \E u \in Urls, t \in Times, ok \in BOOLEAN : startTranscription(u, uuidv4, t, ok)
  \/ \E j \in JobIds : \E p \in procs[j], percent \in PercentTokens : StdoutData(j, p, percent)
  \/ \E j \in JobIds : \E p \in procs[j], ok \in BOOLEAN : ProcError(j, p, ok)
  \/ \E j \in JobIds : \E p \in procs[j], code \in {-2, 0, 1}, wrote \in BOOLEAN, ok \in BOOLEAN :
       ProcClose(j, p, code, wrote, ok)
  \/ \E j \in JobIds, ok \in BOOLEAN, sp \in BOOLEAN : PuppeteerLaunch(j, ok, sp)
  \/ \E j \in JobIds, ok \in BOOLEAN, cl \in BOOLEAN, sp \in BOOLEAN : PuppeteerBrowse(j, ok, cl, sp)
  \/ \E j \in JobIds, ok \in BOOLEAN, cl \in BOOLEAN, sp \in BOOLEAN : PuppeteerClose(j, ok, cl, sp)
  \/ \E j \in JobIds, ok \in BOOLEAN : YtdlGetInfo(j, ok)
  \/ \E j \in JobIds, percent \in YtdlPercents : YtdlProgress(j, percent)
  \/ \E j \in JobIds, which \in {"stream", "file"} : YtdlError(j, which)
  \/ \E j \in JobIds : YtdlFinish(j)
  \/ \E j \in JobIds, ok \in BOOLEAN : UploadDone(j, ok)
  \/ \E j \in JobIds, ok \in BOOLEAN : SubmitDone(j, ok)
  \/ \E j \in JobIds, save \in {"ok", "fail1", "fail2"}, ok \in BOOLEAN : PollCompleted(j, save, ok)
  \/ \E j \in JobIds, e \in RemoteErrors : PollError(j, e)
  \/ \E j \in JobIds, percent \in PollPercents : PollProcessing(j, percent)
  \/ \E j \in JobIds : PollRequestFailed(j)

Spec == Init /\ [][Next]_vars

(* ------------------------- two concurrent jobs ------------------------ *)

\* Two submissions to a configured server with empty output directories, in
\* an environment where every yt-dlp child of the direct strategy starts and
\* exits 0 with its output file, transcripts can be saved and the audio file
\* can be removed; the transcription service may refuse an upload or a
\* submission.
InitPair ==
  /\ apiKey = "key"
  /\ jobs = <<>>
  /\ emits = <<>>
  /\ reply = [kind |-> "none", val |-> ""]
  /\ submitsLeft = 2
  /\ fs = {}
  /\ crashed = FALSE
  /\ pc = [j \in JobIds |-> "idle"]
  /\ title = [j \in JobIds |-> NoTitle]
  /\ procs = [j \in JobIds |-> {}]
  /\ chromeSt = [j \in JobIds |-> "none"]
  /\ browserOpen = [j \in JobIds |-> FALSE]
  /\ ytdl = [j \in JobIds |-> "none"]
  /\ lastPercent = [j \in JobIds |-> 0]
  /\ lastProgress = [j \in JobIds |-> 0]
  /\ lastPoll = [j \in JobIds |-> NoPoll]
  /\ invoked = [j \in JobIds |-> [a \in Attempts |-> 0]]
  /\ succeeded = [j \in JobIds |-> {}]
  /\ clientCalls = [j \in JobIds |-> {}]
  /\ client = NoClient
  /\ call = NoCall

NextPair ==
  \/ \E u \in Urls, t \in Times : startTranscription(u, uuidv4, t, TRUE)
  \/ \E j \in JobIds : \E p \in procs[j], percent \in PercentTokens : StdoutData(j, p, percent)
  \/ \E j \in JobIds : \E p \in procs[j] : ProcClose(j, p, 0, TRUE, TRUE)
  \/ \E j \in JobIds, ok \in BOOLEAN : UploadDone(j, ok)
  \/ \E j \in JobIds, ok \in BOOLEAN : SubmitDone(j, ok)
  \/ \E j \in JobIds : PollCompleted(j, "ok", TRUE)

SpecPair == InitPair /\ [][NextPair]_vars

(* ----------------------------- the registry --------------------------- *)

\* TranscriptionJob['status']
JobStatuses == {"pending", "downloading", "transcribing", "completed", "error"}

\* The registry alone: empty or holding one job, with updateJobStatus and
\* updateJobProgress applied to any id, registered or not.
InitRegistry ==
  /\ apiKey = "key"
  /\ jobs \in {<<>>, "j1" :> NewJob("j1", UrlWatch)}
  /\ emits = <<>>
  /\ reply = [kind |-> "none", val |-> ""]
  /\ submitsLeft = 0
  /\ fs = {}
  /\ crashed = FALSE
  /\ pc = [j \in JobIds |-> "idle"]
  /\ title = [j \in JobIds |-> NoTitle]
  /\ procs = [j \in JobIds |-> {}]
  /\ chromeSt = [j \in JobIds |-> "none"]
  /\ browserOpen = [j \in JobIds |-> FALSE]
  /\ ytdl = [j \in JobIds |-> "none"]
  /\ lastPercent = [j \in JobIds |-> 0]
  /\ lastProgress = [j \in JobIds |-> 0]
  /\ lastPoll = [j \in JobIds |-> NoPoll]
  /\ invoked = [j \in JobIds |-> [a \in Attempts |-> 0]]
  /\ succeeded = [j \in JobIds |-> {}]
  /\ clientCalls = [j \in JobIds |-> {}]
  /\ client = NoClient
  /\ call = NoCall

UpdateStatus(jobId, status, error, result) ==
  Commit(updateJobStatus(World, jobId, status, error, result))

UpdateProgress(jobId, type, percent) ==
  Commit(updateJobProgress(World, jobId, type, percent))

NextRegistry ==
  \/ \E jobId \in JobIds, status \in JobStatuses, error \in {NoValue, <<"failure">>},
        result \in {NoValue, <<TranscriptPath(StaleTitle), SimplePath(StaleTitle)>>} :
       UpdateStatus(jobId, status, error, result)
  \/ \E jobId \in JobIds, type \in {"download", "transcription"}, percent \in PercentTokens :
       UpdateProgress(jobId, type, percent)

SpecRegistry == InitRegistry /\ [][NextRegistry]_vars

(* ----------------------- after the acquisition chain ------------------ *)

\* The attempts the chain makes when each strategy before the last one tried
\* fails at its first attempt.
FirstAttempts == {<<"simple", 0>>, <<"chrome", 0>>, <<"browser", 1>>, <<"ytdlcore", 0>>}

\* The await of downloadVideo that attempt a settles.
AwaitOf(a) == IF a[1] = "ytdlcore" THEN "ytdlcore"
              ELSE IF a[1] \in {"simple", "chrome"} THEN a[1] ELSE "ytdlp"

\* A job at the moment one of its strategies has called resolve(): the
\* strategy found the audio file and set download to 100; by the time
\* processVideo resumes, the file is still there or has been removed from
\* outside the server.
InitResume ==
  \E a \in FirstAttempts, t \in Times :
    LET j    == "j1"
        rank == StrategyRank(a)
        job  == [NewJob(j, UrlWatch) EXCEPT
                   !.status = IF rank >= 3 THEN "downloading" ELSE "pending",
                   !.download = 100]
    IN /\ apiKey = "key"
       /\ jobs = (j :> job)
       /\ emits = <<job>>
       /\ reply = [kind |-> "id", val |-> j]
       /\ submitsLeft = 0
       /\ fs \in {{}, {AudioPath(VideoTitle(extractVideoId(UrlWatch), t))}}
       /\ crashed = FALSE
       /\ pc = [k \in JobIds |-> IF k = j THEN AwaitOf(a) ELSE "idle"]
       /\ title = [k \in JobIds |-> IF k = j THEN VideoTitle(extractVideoId(UrlWatch), t)
                                     ELSE NoTitle]
       /\ procs = [k \in JobIds |-> {}]
       /\ chromeSt = [k \in JobIds |-> IF k = j /\ rank >= 2
                                        THEN (IF rank = 2 THEN "proc" ELSE "done")
                                        ELSE "none"]
       /\ browserOpen = [k \in JobIds |-> FALSE]
       /\ ytdl = [k \in JobIds |-> IF k = j /\ rank = 4 THEN "ended" ELSE "none"]
       /\ lastPercent = [k \in JobIds |-> 0]
       /\ lastProgress = [k \in JobIds |-> 0]
       /\ lastPoll = [k \in JobIds |-> NoPoll]
       /\ invoked = [k \in JobIds |-> [b \in Attempts |->
                       IF k = j /\ b \in FirstAttempts /\ StrategyRank(b) <= rank
                       THEN 1 ELSE 0]]
       /\ succeeded = [k \in JobIds |-> IF k = j THEN {a} ELSE {}]
       /\ clientCalls = [k \in JobIds |-> {}]
       /\ client = NoClient
       /\ call = NoCall

\* The continuation of `await this.downloadVideo(...)` runs.
DownloadVideoReturns(j) ==
  /\ ~crashed
  /\ pc[j] \in {"simple", "chrome", "ytdlp", "ytdlcore"}
  /\ Commit(Resolve(World, j, pc[j]))

NextResume ==
  \/ \E j \in JobIds : DownloadVideoReturns(j)
  \/ \E j \in JobIds, ok \in BOOLEAN : UploadDone(j, ok)
  \/ \E j \in JobIds, ok \in BOOLEAN : SubmitDone(j, ok)
  \/ \E j \in JobIds, save \in {"ok", "fail1", "fail2"}, ok \in BOOLEAN : PollCompleted(j, save, ok)
  \/ \E j \in JobIds, e \in RemoteErrors : PollError(j, e)
  \/ \E j \in JobIds, percent \in PollPercents : PollProcessing(j, percent)
  \/ \E j \in JobIds : PollRequestFailed(j)

SpecResume == InitResume /\ [][NextResume]_vars

(* ------------------------------ properties --------------------------- *)

Terminal == {"completed", "error"}

\* Pending < Acquiring < Transcribing < {Completed, Failed}
StatusRank(status) ==
  CASE status = "pending"      -> 0
    [] status = "downloading"  -> 1
    [] status = "transcribing" -> 2
    [] status \in Terminal     -> 3

\* The snapshots of job j an observer sees over one step: the job before the
\* step, then every broadcast of the step that carries j.
Observed(j) ==
  <<jobs[j]>> \o SelectSeq(emits', LAMBDA snap : snap.id = j)

\* The await of downloadVideo that a child process of this kind belongs to.
StrategyPc(kind) ==
  CASE kind = "simple" -> "simple"
    [] kind = "chrome" -> "chrome"
    [] OTHER           -> "ytdlp"

\* Acquisition subprocesses and downloads of job j that are running.
InFlight(j) ==
  Cardinality({p \in procs[j] : p.st = "running"})
    + (IF ytdl[j] \in {"info", "streaming"} THEN 1 ELSE 0)

AcquisitionPcs == {"simple", "chrome", "ytdlp", "ytdlcore"}

Contains(message, text) == \E i \in 1..Len(message) : message[i] = text

\* C1: when a poll returns status 'error' for a transcribing job, polling
\* stops and the job is Failed with the remote message in its error field.
C1_RemoteErrorFailsJob ==
  \A j \in DOMAIN jobs :
    lastPoll[j].status = "error" =>
      /\ pc[j] = "done"
      /\ jobs[j].status = "error"
      /\ Contains(jobs[j].error, lastPoll[j].error)

\* A poll has answered 'error' for a job that is Transcribing.
C1_Witness ==
  \E j \in DOMAIN jobs :
    lastPoll[j].status = "error" /\ jobs[j].status = "transcribing" /\ pc[j] = "poll"

\* C2: once a job is Completed or Failed, no later event changes its status,
\* progress, result or error.
C2_TerminalIsFinal ==
  [][\A j \in DOMAIN jobs : jobs[j].status \in Terminal => jobs'[j] = jobs[j]]_vars

\* A terminal job whose task is over still has a child process with events to come.
C2_Witness ==
  \E j \in DOMAIN jobs : jobs[j].status \in Terminal /\ pc[j] = "done" /\ procs[j] # {}

\* C3: over the snapshots observed for a job, status never regresses in the
\* order Pending < Acquiring < Transcribing < {Completed, Failed}.
C3_StatusNeverRegresses ==
  [][\A j \in DOMAIN jobs :
       \A i \in 1..Len(Observed(j)) - 1 :
         StatusRank(Observed(j)[i + 1].status) >= StatusRank(Observed(j)[i].status)]_vars

\* A Transcribing job while a child process of the browser strategy lives on.
C3_Witness ==
  \E j \in DOMAIN jobs :
    jobs[j].status = "transcribing" /\ \E p \in procs[j] : p.kind \in {"browser", "final", "alt"}

\* C4: a job is Pending at the moment startTranscription returns its id.
C4_PendingAtReturn ==
  [][\A j \in JobIds :
       (j \notin DOMAIN jobs /\ j \in DOMAIN jobs') => jobs'[j].status = "pending"]_vars

\* startTranscription has returned the id of a job made from a reference
\* that passed validation.
C4_Witness ==
  \E j \in DOMAIN jobs : reply = [kind |-> "id", val |-> j] /\ MatchesYouTubeUrl(jobs[j].videoUrl)

\* C5: a job's download progress never decreases.
C5_DownloadMonotonic ==
  [][\A j \in DOMAIN jobs :
       \A i \in 1..Len(Observed(j)) - 1 :
         Observed(j)[i + 1].download >= Observed(j)[i].download]_vars

\* A running child while the stored download progress is above the lowest token.
C5_Witness ==
  \E j \in DOMAIN jobs :
    /\ \E p \in procs[j] : p.st = "running"
    /\ \E t \in PercentTokens : jobs[j].download > t

\* C6: a job's transcription progress never decreases, whatever percentages
\* the remote service reports.
C6_TranscriptionMonotonic ==
  [][\A j \in DOMAIN jobs :
       \A i \in 1..Len(Observed(j)) - 1 :
         Observed(j)[i + 1].transcription >= Observed(j)[i].transcription]_vars

\* The poll loop is running with a reported percentage above the lowest one.
C6_Witness ==
  \E j \in DOMAIN jobs :
    pc[j] = "poll" /\ \E t \in PollPercents : jobs[j].transcription > t

\* C7: at most one acquisition subprocess or download is in flight per job,
\* and none once the chain has returned to processVideo.
C7_OneAcquisitionAtATime ==
  \A j \in JobIds :
    /\ InFlight(j) <= 1
    /\ pc[j] \notin AcquisitionPcs => InFlight(j) = 0

\* The chain has moved on from the browser strategy, whose child has yet to close.
C7_Witness ==
  \E j \in JobIds :
    pc[j] = "ytdlcore" /\ \E p \in procs[j] : p.kind = "browser" /\ p.st = "errored"

\* C8: after a strategy has exited 0 and left the output file, no strategy
\* later in downloadVideo's order is invoked for the job.
C8_ChainShortCircuit ==
  [][\A j \in JobIds :
       \A a \in succeeded'[j], b \in Attempts :
         StrategyRank(b) > StrategyRank(a) => invoked'[j][b] = invoked[j][b]]_vars

\* Strategies [Fail, Succeed]: the second ended the chain and the job went on
\* to transcription without the third or fourth having been invoked.
C8_Witness ==
  \E j \in DOMAIN jobs :
    /\ invoked[j][<<"simple", 0>>] = 1
    /\ succeeded[j] = {<<"chrome", 0>>}
    /\ invoked[j][<<"browser", 1>>] = 0
    /\ invoked[j][<<"ytdlcore", 0>>] = 0
    /\ jobs[j].status = "completed"

\* The error texts downloadWithYtdlCore can reject with, by its state.
YtdlCoreErrors(state) ==
  IF state = "info"
  THEN {<<"Erro ao obter informacoes do video: ">>}
  ELSE {<<"Erro no download: ">>, <<"Erro ao salvar arquivo: ">>,
        <<"Arquivo de audio nao criado: ">>}

FailsNow(j, p) ==
  \/ p.st = "spawnfail" /\ [p EXCEPT !.st = "errored"] \in procs'[j]
  \/ p.st = "running" /\ p \notin procs'[j] /\ <<p.kind, p.idx>> \notin succeeded'[j]

\* C10: each failure condition of a strategy's subprocess makes the strategy
\* settle as failed and the chain proceed (to the next attempt or strategy);
\* none raises outside the chain.
C10_FailureSettles ==
  [][\A j \in JobIds : \A p \in procs[j] :
       (FailsNow(j, p) /\ pc[j] = StrategyPc(p.kind)) =>
          /\ ~crashed'
          /\ pc'[j] # pc[j] \/ invoked'[j] # invoked[j]]_vars

\* The direct strategy's child could not be spawned.
C10_Witness ==
  \E j \in JobIds :
    pc[j] = "simple" /\ [kind |-> "simple", idx |-> 0, st |-> "spawnfail"] \in procs[j]

\* C11: no failure raised inside a job's task escapes it: the process never
\* dies of it, and a task that ends leaves the job Completed, or Failed with
\* the failure's message.
C11_TaskCatchesFailures ==
  [][/\ ~crashed'
     /\ \A j \in DOMAIN jobs :
          (pc[j] # "done" /\ pc'[j] = "done") =>
             /\ jobs'[j].status \in Terminal
             /\ jobs'[j].status = "error" => jobs'[j].error # NoValue]_vars

\* A failure of the transcription service was caught: the task is over and
\* the job is Failed.
C11_Witness ==
  \E j \in DOMAIN jobs :
    pc[j] = "done" /\ jobs[j].status = "error" /\ clientCalls[j] # {} /\ ~crashed

\* C12: when the strategy of downloadWithChromeCookies settles, on whichever
\* path, the cookie file is gone and the browser is closed.
C12_ChromeResourcesReleased ==
  [][\A j \in JobIds :
       (pc[j] = "chrome" /\ pc'[j] # "chrome") =>
          /\ CookiesPath(j) \notin fs'
          /\ ~browserOpen'[j]]_vars

\* The strategy has settled after it wrote the cookie file and spawned yt-dlp.
C12_Witness ==
  \E j \in JobIds : chromeSt[j] = "proc" /\ pc[j] # "chrome"

\* C13: a job that was set Completed after its transcription stays Completed,
\* with its result paths and no error, whether or not the audio file could be
\* removed.
C13_CleanupBestEffort ==
  [][\A j \in DOMAIN jobs :
       (pc[j] = "poll" /\ \E i \in 1..Len(emits') :
                            emits'[i].id = j /\ emits'[i].status = "completed") =>
          /\ jobs'[j].status = "completed"
          /\ jobs'[j].result = <<TranscriptPath(title[j]), SimplePath(title[j])>>
          /\ jobs'[j].error = NoValue]_vars

\* The pipeline succeeded and the audio file, not removed, is still on disk.
C13_Witness ==
  \E j \in DOMAIN jobs :
    /\ pc[j] = "done"
    /\ jobs[j].result # NoValue
    /\ lastPoll[j].status = "completed"
    /\ AudioPath(title[j]) \in fs

\* C14: a job has a result only while Completed and an error only while
\* Failed (so never both).
C14_ResultErrorExclusive ==
  \A j \in DOMAIN jobs :
    /\ jobs[j].result # NoValue => jobs[j].status = "completed"
    /\ jobs[j].error # NoValue => jobs[j].status = "error"

\* A job that has a result.
C14_Witness ==
  \E j \in DOMAIN jobs : jobs[j].result # NoValue /\ pc[j] = "done"

\* The attempts and transcription-service requests made for job j so far.
Calls(j) == <<invoked[j], clientCalls[j], procs[j], ytdl[j], chromeSt[j]>>

NoCalls ==
  <<[a \in Attempts |-> 0], {}, {}, "none", "none">>

C18_PollFailureRetried ==
  [][\A j \in DOMAIN jobs :
       pc[j] = "poll" =>
         /\ (lastPoll[j].status # "request failed"
               /\ lastPoll'[j].status = "request failed") =>
              /\ jobs'[j] = jobs[j]
              /\ pc'[j] = "poll"
              /\ "poll" \in clientCalls'[j]
         /\ jobs'[j].status = "error" => lastPoll'[j].status \in {"error", "completed"}]_vars

\* A poll request has failed and the job is Transcribing, still polling.
C18_Witness ==
  \E j \in DOMAIN jobs :
    /\ lastPoll[j].status = "request failed"
    /\ pc[j] = "poll"
    /\ jobs[j].status = "transcribing"

\* C19: a call of startTranscription with a reference that fails the URL
\* pattern throws, and registers no job, starts no task and broadcasts
\* nothing.
C19_MalformedRejected ==
  [][\A u \in Urls, j \in JobIds, t \in Times, ok \in BOOLEAN :
       (startTranscription(u, j, t, ok) /\ ~MatchesYouTubeUrl(u)) =>
          /\ reply'.kind = "throw"
          /\ jobs' = jobs
          /\ emits' = <<>>
          /\ <<pc, title, procs, chromeSt, ytdl, invoked, clientCalls, fs>>' =
               <<pc, title, procs, chromeSt, ytdl, invoked, clientCalls, fs>>]_vars

\* A call with a configured key was rejected for its URL.
C19_Witness ==
  reply = [kind |-> "throw", val |-> "Invalid YouTube URL"] /\ jobs = <<>>

\* C20: a call of startTranscription with a reference that matches the URL
\* pattern returns a job id, whatever the configuration.
C20_OnlyValidationThrows ==
  [][\A u \in Urls, j \in JobIds, t \in Times, ok \in BOOLEAN :
       (startTranscription(u, j, t, ok) /\ MatchesYouTubeUrl(u)) =>
          reply'.kind = "id" /\ reply'.val \in DOMAIN jobs']_vars

\* A call was made with no API key configured.
C20_Witness ==
  apiKey = "" /\ reply.kind # "none"

\* C16: two jobs submitted with the same reference derive the same audio,
\* full-transcript and speaker-transcript file names, whenever each was
\* submitted.
C16_KeyDeterministic ==
  \A a, b \in DOMAIN jobs :
    (jobs[a].videoUrl = jobs[b].videoUrl /\ title[a] # NoTitle /\ title[b] # NoTitle) =>
       /\ AudioPath(title[a]) = AudioPath(title[b])
       /\ TranscriptPath(title[a]) = TranscriptPath(title[b])
       /\ SimplePath(title[a]) = SimplePath(title[b])

\* The same reference was submitted again after its first job was Completed
\* and had left its transcript.
C16_Witness ==
  \E a, b \in DOMAIN jobs :
    /\ a # b
    /\ jobs[a].videoUrl = jobs[b].videoUrl
    /\ jobs[a].status = "completed"
    /\ TranscriptPath(title[a]) \in fs
    /\ title[b] # NoTitle

\* What the task of job j holds privately.
Private(j) ==
  <<pc[j], title[j], procs[j], chromeSt[j], browserOpen[j], ytdl[j], lastPercent[j],
    lastProgress[j], lastPoll[j], invoked[j], succeeded[j], clientCalls[j]>>

\* The files job j reads, writes or removes.
FilesOf(j) ==
  {AudioPath(title[j]), TranscriptPath(title[j]), SimplePath(title[j]), CookiesPath(j)}

\* The step is an event of job a and not of job b.
EventOfNot(a, b) ==
  /\ a # b
  /\ Private(b)' = Private(b)
  /\ \/ Private(a)' # Private(a)
     \/ a \in DOMAIN jobs /\ jobs'[a] # jobs[a]

\* C17: an event of one job changes neither another job's record nor which
\* of the other job's files exist; and a job whose own download, upload,
\* submission, polling, saving and cleanup all succeed ends Completed.
C17_Isolation ==
  [][\A a, b \in JobIds :
       /\ (EventOfNot(a, b) /\ b \in DOMAIN jobs) =>
            /\ jobs'[b] = jobs[b]
            /\ FilesOf(b) \cap fs' = FilesOf(b) \cap fs
       /\ (b \in DOMAIN jobs /\ pc'[b] = "done" /\ lastPoll'[b].status = "completed") =>
            jobs'[b].status = "completed"]_vars

\* Two jobs for the same video, submitted at the same instant, are both at work.
C17_Witness ==
  \E a, b \in DOMAIN jobs :
    /\ a # b
    /\ title[a] = title[b]
    /\ title[a] # NoTitle
    /\ pc[a] # "done" /\ pc[b] # "done"

\* C21: a job's status is 'downloading' once its first acquisition attempt is
\* invoked, and it is never observed going from Pending to Transcribing.
C21_ThroughAcquiring ==
  [][\A j \in DOMAIN jobs' :
       /\ invoked'[j][<<"simple", 0>>] = 1 /\ pc'[j] = "simple" =>
            jobs'[j].status = "downloading"
       /\ j \in DOMAIN jobs =>
            \A i \in 1..Len(Observed(j)) - 1 :
              ~(Observed(j)[i].status = "pending" /\ Observed(j)[i + 1].status = "transcribing")]_vars

\* The first strategy of a job is at work.
C21_Witness ==
  \E j \in DOMAIN jobs :
    pc[j] = "simple" /\ [kind |-> "simple", idx |-> 0, st |-> "running"] \in procs[j]

\* C22: a job that is Transcribing, or whose transcription progress is above
\* 0, has download progress 100.
C22_TranscribeAfterFullDownload ==
  \A j \in DOMAIN jobs :
    (jobs[j].status = "transcribing" \/ jobs[j].transcription > 0) => jobs[j].download = 100

\* A Transcribing job with transcription progress above 0.
C22_Witness ==
  \E j \in DOMAIN jobs :
    jobs[j].status = "transcribing" /\ jobs[j].transcription > 0 /\ pc[j] = "poll"

C30_CompletedAtFull ==
  \A j \in DOMAIN jobs :
    (jobs[j].status = "completed" /\ "poll" \in clientCalls[j]) =>
       jobs[j].download = 100 /\ jobs[j].transcription = 100

\* A job Completed through the pipeline.
C30_Witness ==
  \E j \in DOMAIN jobs :
    jobs[j].status = "completed" /\ lastPoll[j].status = "completed" /\ pc[j] = "done"

\* Job j as the step found it (a job the step registers starts as NewJob).
Before(j) == IF j \in DOMAIN jobs THEN jobs[j] ELSE NewJob(j, jobs'[j].videoUrl)

\* Snapshot b is snapshot a after one update call.
OneUpdate(a, b) ==
  \/ [b EXCEPT !.download = a.download] = a
  \/ [b EXCEPT !.transcription = a.transcription] = a
  \/ [b EXCEPT !.status = a.status, !.error = a.error, !.result = a.result] = a

\* C25: over every step, the broadcasts that carry a job are its successive
\* states, one per update, and the last of them is the job's state in the
\* registry; a job with no broadcast in the step is unchanged.
C25_UpdateBroadcasts ==
  [][\A j \in DOMAIN jobs' :
       LET seen == <<Before(j)>> \o SelectSeq(emits', LAMBDA snap : snap.id = j)
       IN /\ seen[Len(seen)] = jobs'[j]
          /\ \A i \in 1..Len(seen) - 1 : OneUpdate(seen[i], seen[i + 1])]_vars

\* A step has made two updates of a job, each with its broadcast.
C25_Witness ==
  \E j \in DOMAIN jobs :
    Len(emits) = 2 /\ emits[1].id = j /\ emits[2] = jobs[j] /\ emits[1] # emits[2]

\* C28: when the upload request or the submit request fails, the job is
\* Failed with that error, its task is over and no poll request is made.
C28_SubmitFailureFatal ==
  [][\A j \in DOMAIN jobs :
       /\ (UploadDone(j, FALSE) \/ SubmitDone(j, FALSE)) =>
            /\ jobs'[j].status = "error"
            /\ jobs'[j].error \in {<<"Transcription error: ", "upload failed">>,
                                   <<"Transcription error: ", "submit failed">>}
            /\ pc'[j] = "done"
            /\ "poll" \notin clientCalls'[j]
       /\ pc[j] = "done" => (pc'[j] = "done" /\ clientCalls'[j] = clientCalls[j])]_vars

\* The submit request of a job failed after its upload.
C28_Witness ==
  \E j \in DOMAIN jobs :
    /\ jobs[j].error = <<"Transcription error: ", "submit failed">>
    /\ clientCalls[j] = {"upload", "submit"}
    /\ pc[j] = "done"

\* C29: a poll answered with a non-terminal status and percentage p writes p
\* to the job's transcription progress, with one broadcast, when p is more
\* than MinDelta away from the progress last written; else it changes no job
\* and broadcasts nothing.
C29_MinimumDelta ==
  [][\A j \in DOMAIN jobs, p \in PollPercents :
       PollProcessing(j, p) =>
         IF p - jobs[j].transcription > 5 \/ jobs[j].transcription - p > 5
         THEN /\ jobs' = [jobs EXCEPT ![j].transcription = p]
              /\ emits' = <<jobs'[j]>>
         ELSE /\ jobs' = jobs
              /\ emits' = <<>>]_vars

\* A poll has reported a percentage exactly the minimum delta away from the
\* progress written, which was left as it was.
C29_Witness ==
  \E j \in DOMAIN jobs :
    /\ pc[j] = "poll"
    /\ lastPoll[j].status = "processing"
    /\ jobs[j].transcription = 0
    /\ 5 \in PollPercents

\* C24: updateJobStatus or updateJobProgress with an id that is not in the
\* registry changes no job, adds no job, broadcasts nothing and raises
\* nothing.
C24_MissingIdNoOp ==
  [][\A jobId \in JobIds :
       jobId \notin DOMAIN jobs =>
         /\ \A status \in JobStatuses, error \in {NoValue, <<"failure">>},
               result \in {NoValue, <<TranscriptPath(StaleTitle), SimplePath(StaleTitle)>>} :
              UpdateStatus(jobId, status, error, result) =>
                (jobs' = jobs /\ emits' = <<>> /\ ~crashed' /\ reply' = reply)
         /\ \A type \in {"download", "transcription"}, percent \in PercentTokens :
              UpdateProgress(jobId, type, percent) =>
                (jobs' = jobs /\ emits' = <<>> /\ ~crashed' /\ reply' = reply)]_vars

\* After an update of the registered job, an update of an id that is not
\* registered has been made: the job is as the first update left it and the
\* last call has broadcast nothing.
C24_Witness ==
  /\ DOMAIN jobs = {"j1"}
  /\ jobs["j1"].status = "transcribing"
  /\ jobs["j1"].download = 75
  /\ emits = <<>>

\* C27: when downloadVideo has returned and the audio file does not exist,
\* the job becomes Failed with the file-not-created message, and no upload,
\* submit or poll request is made for it, then or later.
C27_ArtifactMissing ==
  [][\A j \in DOMAIN jobs :
       /\ (DownloadVideoReturns(j) /\ AudioPath(title[j]) \notin fs) =>
            /\ jobs'[j].status = "error"
            /\ jobs'[j].error = <<"Audio file not created after download: ">>
            /\ pc'[j] = "done"
            /\ clientCalls'[j] = {}
       /\ (pc[j] = "done" /\ clientCalls[j] = {}) => clientCalls'[j] = {}]_vars

\* The chain had reported success without the audio file on disk and the
\* job was Failed for it.
C27_Witness ==
  \E j \in DOMAIN jobs :
    /\ succeeded[j] # {}
    /\ AudioPath(title[j]) \notin fs
    /\ jobs[j].error = <<"Audio file not created after download: ">>
    /\ clientCalls[j] = {}

\* C26: no step removes a job or changes its id or reference, and every id
\* startTranscription returns is new and registered under that id: each id
\* ever returned is found by getJob and listed by getAllJobs.
C26_NeverDeleted ==
  [][/\ DOMAIN jobs \subseteq DOMAIN jobs'
     /\ \A j \in DOMAIN jobs : jobs'[j].id = j /\ jobs'[j].videoUrl = jobs[j].videoUrl
     /\ (submitsLeft' < submitsLeft /\ reply'.kind = "id") =>
          /\ reply'.val \notin DOMAIN jobs
          /\ DOMAIN jobs' = DOMAIN jobs \cup {reply'.val}
          /\ jobs'[reply'.val].id = reply'.val]_vars

\* Two submissions have returned; both jobs are registered and the first
\* one's task is over.
C26_Witness ==
  /\ DOMAIN jobs = {"j1", "j2"}
  /\ pc["j1"] = "done"
  /\ jobs["j1"].status \in Terminal
  /\ pc["j2"] # "done"

\* A child of attempt a of job j emits 'close' in this step.
Closes(j, a) ==
  /\ \E p \in procs[j] : p.kind = a[1] /\ p.idx = a[2]
  /\ ~\E q \in procs'[j] : q.kind = a[1] /\ q.idx = a[2]

\* Attempt a of job j is started in this step.
Starts(j, a) == invoked'[j][a] > invoked[j][a]

\* C31: the browser profiles are tried in list order, the first when the
\* installed-browser strategy starts and each next one in the 'close' of the
\* previous profile's failed attempt; once a profile has succeeded no later
\* profile and no final attempt is started; the final no-cookie attempt is
\* started exactly when the last profile's attempt closes without success,
\* every profile having been tried and none having succeeded.
C31_BrowserOrder ==
  [][\A j \in JobIds :
       /\ Starts(j, <<"browser", 1>>) => (pc[j] = "chrome" /\ pc'[j] = "ytdlp")
       /\ \A i \in 1..NumBrowsers - 1 :
            Starts(j, <<"browser", i + 1>>) <=>
              (Closes(j, <<"browser", i>>) /\ <<"browser", i>> \notin succeeded'[j])
       /\ \A i \in 1..NumBrowsers :
            <<"browser", i>> \in succeeded'[j] =>
              /\ \A k \in i + 1..NumBrowsers : ~Starts(j, <<"browser", k>>)
              /\ ~Starts(j, <<"final", 0>>)
       /\ Starts(j, <<"final", 0>>) <=>
            (Closes(j, <<"browser", NumBrowsers>>)
               /\ <<"browser", NumBrowsers>> \notin succeeded'[j])
       /\ Starts(j, <<"final", 0>>) =>
            \A i \in 1..NumBrowsers :
              invoked[j][<<"browser", i>>] > 0 /\ <<"browser", i>> \notin succeeded'[j]]_vars

\* Every profile has been tried without success and the final attempt has
\* been started.
C31_Witness ==
  \E j \in DOMAIN jobs :
    /\ invoked[j][<<"final", 0>>] = 1
    /\ \A i \in 1..NumBrowsers :
         invoked[j][<<"browser", i>>] = 1 /\ <<"browser", i>> \notin succeeded[j]

\* C34: for every job, each browser profile is tried at most once, the final
\* no-cookie attempt is started at most once and the alternative download is
\* started at most once, whichever of tryFinalDownload's handlers starts it.
C34_StartedAtMostOnce ==
  \A j \in JobIds :
    /\ \A i \in 1..NumBrowsers : invoked[j][<<"browser", i>>] <= 1
    /\ invoked[j][<<"final", 0>>] <= 1
    /\ invoked[j][<<"alt", 1>>] + invoked[j][<<"alt", 2>>] <= 1

\* The final attempt's child failed to start: its 'error' has been handled
\* and its 'close' has followed.
C34_Witness ==
  \E j \in DOMAIN jobs :
    /\ invoked[j][<<"final", 0>>] = 1
    /\ invoked[j][<<"alt", 1>>] = 1
    /\ ~\E p \in procs[j] : p.kind = "final"

\* C35: whenever a job is Completed, the full transcript and the
\* speaker-grouped transcript named in its result both exist on disk.
C35_ResultFilesExist ==
  \A j \in DOMAIN jobs :
    jobs[j].status = "completed" =>
      /\ jobs[j].result # NoValue
      /\ \A i \in 1..Len(jobs[j].result) : jobs[j].result[i] \in fs

\* A job Completed by the idempotency shortcut: no request to the
\* transcription service was made for it.
C35_Witness ==
  \E j \in DOMAIN jobs :
    jobs[j].status = "completed" /\ clientCalls[j] = {} /\ pc[j] = "done"

(* ------------------------------ formatters ---------------------------- *)

MaxUtterances == 3
MaxMinutes == 2

\* utterance.speaker as the service sends it ("" stands for a missing label)
\* and utterance.text (" yo " carries surrounding blanks, "" is empty).
Speakers == {"A", "B", ""}
Texts == {"hi", " yo ", ""}
Utterances == [speaker : Speakers, text : Texts]

\* Transcripts with an utterance list of up to MaxUtterances entries, and one
\* without the field.
Transcripts ==
  {[id |-> "t"]} \cup
  {[id |-> "t", utterances |-> u] :
     u \in UNION {[1..n -> Utterances] : n \in 0..MaxUtterances}}

\* String.prototype.trim on the texts above.
trim(text) == IF text = " yo " THEN "yo" ELSE text

\* The sentinel of formatUtterances (written without its diacritics).
NoUtterances == "Nao foram encontradas utterances na transcricao."

\* Array.prototype.join: a string is the sequence of its pieces.
RECURSIVE join(_, _)
join(parts, sep) ==
  IF Len(parts) = 0 THEN <<>>
  ELSE IF Len(parts) = 1 THEN parts[1]
  ELSE parts[1] \o <<sep>> \o join(Tail(parts), sep)

\* `Falante ${currentSpeaker}:\n${currentText.join(' ')}\n`
Paragraph(currentSpeaker, currentText) ==
  <<"Falante ", currentSpeaker, ":\n">>
    \o join([i \in 1..Len(currentText) |-> <<currentText[i]>>], " ") \o <<"\n">>

\* (mutant) the loop closes the paragraph at every utterance
RECURSIVE formatUtterancesLoopNoRuns(_, _, _, _)
formatUtterancesLoopNoRuns(utterances, formatted, currentSpeaker, currentText) ==
  IF Len(utterances) = 0
  THEN IF Len(currentText) > 0
       THEN Append(formatted, Paragraph(currentSpeaker, currentText))
       ELSE formatted
  ELSE LET speaker == IF Head(utterances).speaker = "" THEN "Unknown"
                      ELSE Head(utterances).speaker
           text    == trim(Head(utterances).text)
           flush   == Len(currentText) > 0
       IN formatUtterancesLoopNoRuns(
            Tail(utterances),
            IF flush THEN Append(formatted, Paragraph(currentSpeaker, currentText))
            ELSE formatted,
            speaker,
            Append(IF flush THEN <<>> ELSE currentText, text))

\* The for loop of formatUtterances and the push after it; currentSpeaker
\* starts as null, written "" (no label is "" once 'Unknown' is substituted).
RECURSIVE formatUtterancesLoop(_, _, _, _)
formatUtterancesLoop(utterances, formatted, currentSpeaker, currentText) ==
  IF Len(utterances) = 0
  THEN IF Len(currentText) > 0
       THEN Append(formatted, Paragraph(currentSpeaker, currentText))
       ELSE formatted
  ELSE LET speaker == IF Head(utterances).speaker = "" THEN "Unknown"
                      ELSE Head(utterances).speaker
           text    == trim(Head(utterances).text)
           flush   == currentSpeaker # speaker /\ Len(currentText) > 0
       IN formatUtterancesLoop(
            Tail(utterances),
            IF flush THEN Append(formatted, Paragraph(currentSpeaker, currentText))
            ELSE formatted,
            speaker,
            Append(IF flush THEN <<>> ELSE currentText, text))

formatUtterances(transcript) ==
  IF "utterances" \notin DOMAIN transcript \/ Len(transcript.utterances) = 0
  THEN <<NoUtterances>>
  ELSE join(formatUtterancesLoop(transcript.utterances, <<>>, "", <<>>), "\n")

\* Millisecond values up to MaxMinutes minutes and 59.999 s.  Values whose
\* third decimal of the second is 5 are left out: which way toFixed(2) rounds
\* them depends on the binary representation of the quotient.
Millis ==
  {m * 60000 + s * 1000 + f :
     m \in 0..MaxMinutes, s \in {0, 1, 30, 59}, f \in {0, 4, 6, 500, 994, 996, 999}}

DigitChars == <<"0", "1", "2", "3", "4", "5", "6", "7", "8", "9">>

\* Number.prototype.toString of a non-negative integer, as its characters.
RECURSIVE toString(_)
toString(n) ==
  IF n < 10 THEN <<DigitChars[n + 1]>>
  ELSE Append(toString(n \div 10), DigitChars[(n % 10) + 1])

\* String.prototype.padStart
padStart(s, targetLength, padString) ==
  [i \in 1..(IF Len(s) >= targetLength THEN 0 ELSE targetLength - Len(s)) |-> padString] \o s

\* (x / 1000).toFixed(2) of x thousandths whose last digit is not 5: the
\* nearest number of hundredths, written with two decimals.
toFixed2(x) ==
  LET n == (x + 5) \div 10
  IN toString(n \div 100) \o <<".", DigitChars[((n \div 10) % 10) + 1], DigitChars[(n % 10) + 1]>>

formatTime(ms) ==
  LET minutes          == ms \div 60000
      remainingSeconds == ms % 60000
  IN padStart(toString(minutes), 2, "0") \o <<":">>
       \o padStart(toFixed2(remainingSeconds), 5, "0")

\* A formatter is about to be called with an argument from the sets above.
InitFormat ==
  /\ apiKey = "key"
  /\ jobs = <<>>
  /\ emits = <<>>
  /\ reply = [kind |-> "none", val |-> ""]
  /\ submitsLeft = 0
  /\ fs = {}
  /\ crashed = FALSE
  /\ pc = [j \in JobIds |-> "idle"]
  /\ title = [j \in JobIds |-> NoTitle]
  /\ procs = [j \in JobIds |-> {}]
  /\ chromeSt = [j \in JobIds |-> "none"]
  /\ browserOpen = [j \in JobIds |-> FALSE]
  /\ ytdl = [j \in JobIds |-> "none"]
  /\ lastPercent = [j \in JobIds |-> 0]
  /\ lastProgress = [j \in JobIds |-> 0]
  /\ lastPoll = [j \in JobIds |-> NoPoll]
  /\ invoked = [j \in JobIds |-> [a \in Attempts |-> 0]]
  /\ succeeded = [j \in JobIds |-> {}]
  /\ clientCalls = [j \in JobIds |-> {}]
  /\ client = NoClient
  /\ call \in {[fn |-> "formatUtterances", arg |-> t, ret |-> <<>>] : t \in Transcripts}
              \cup {[fn |-> "formatTime", arg |-> ms, ret |-> <<>>] : ms \in Millis}

FormatUtterances ==
  /\ call.fn = "formatUtterances"
  /\ call.ret = <<>>
  /\ Commit([World EXCEPT !.call.ret = formatUtterances(call.arg)])

FormatTime ==
  /\ call.fn = "formatTime"
  /\ call.ret = <<>>
  /\ Commit([World EXCEPT !.call.ret = formatTime(call.arg)])

NextFormat ==
  \/ FormatUtterances
  \/ FormatTime

SpecFormat == InitFormat /\ [][NextFormat]_vars

\* The utterance list of a transcript (none when the field is missing).
UtterancesOf(transcript) ==
  IF "utterances" \in DOMAIN transcript THEN transcript.utterances ELSE <<>>

\* The label formatUtterances prints for utterance i.
Label(us, i) == IF us[i].speaker = "" THEN "Unknown" ELSE us[i].speaker

\* The utterances at which a run of one speaker begins.
RunStarts(us) == {i \in 1..Len(us) : i = 1 \/ Label(us, i) # Label(us, i - 1)}

\* The members of a set of numbers in increasing order.
Sorted(S) ==
  CHOOSE f \in [1..Cardinality(S) -> S] :
    \A a, b \in 1..Cardinality(S) : a < b => f[a] < f[b]

\* C32: for a missing or empty utterance list formatUtterances returns the
\* sentinel; otherwise its output holds one paragraph per maximal run of
\* consecutive utterances with the same speaker label, in transcript order:
\* paragraph n is headed by the label of run n and carries the trimmed texts
\* of exactly the utterances of that run, joined by blanks, and the
\* paragraphs are separated by one empty line.
C32_FormatterGrouping ==
  (call.fn = "formatUtterances" /\ call.ret # <<>>) =>
    LET us     == UtterancesOf(call.arg)
        out    == call.ret
        starts == Sorted(RunStarts(us))
        heads  == Sorted({k \in 1..Len(out) : out[k] = "Falante "})
        runEnd(n)  == IF n < Len(starts) THEN starts[n + 1] - 1 ELSE Len(us)
        paraEnd(n) == IF n < Len(heads) THEN heads[n + 1] - 2 ELSE Len(out)
    IN IF Len(us) = 0
       THEN out = <<NoUtterances>>
       ELSE /\ Len(heads) = Len(starts)
            /\ heads[1] = 1
            /\ \A n \in 1..Len(heads) :
                 LET size == runEnd(n) - starts[n] + 1
                 IN /\ out[heads[n] + 1] = Label(us, starts[n])
                    /\ out[heads[n] + 2] = ":\n"
                    /\ paraEnd(n) = heads[n] + 2 + (2 * size - 1) + 1
                    /\ \A i \in 1..size :
                         out[heads[n] + 1 + 2 * i] = trim(us[starts[n] + i - 1].text)
                    /\ \A i \in 1..size - 1 : out[heads[n] + 2 + 2 * i] = " "
                    /\ out[paraEnd(n)] = "\n"
                    /\ n < Len(heads) => out[paraEnd(n) + 1] = "\n"

\* Speakers A, A, B have been formatted: two paragraphs, the first with two
\* texts.
C32_Witness ==
  /\ call.fn = "formatUtterances"
  /\ call.ret # <<>>
  /\ Len(UtterancesOf(call.arg)) = 3
  /\ call.arg.utterances[1].speaker = "A"
  /\ call.arg.utterances[2].speaker = "A"
  /\ call.arg.utterances[3].speaker = "B"
  /\ Cardinality({k \in 1..Len(call.ret) : call.ret[k] = "Falante "}) = 2

\* The number a character of DigitChars stands for.
DigitValue(c) == (CHOOSE d \in 1..10 : DigitChars[d] = c) - 1

\* C38: formatTime renders a millisecond value as two minute digits, a
\* colon, two second digits, a point and two decimals; the minutes are
\* floor(ms / 60000) and the seconds field is below 60.00.
C38_SecondsBelowSixty ==
  (call.fn = "formatTime" /\ call.ret # <<>>) =>
    LET out   == call.ret
        digit == {k \in 1..8 : k \notin {3, 6}}
    IN /\ Len(out) = 8
       /\ out[3] = ":"
       /\ out[6] = "."
       /\ \A k \in digit : \E d \in 1..10 : DigitChars[d] = out[k]
       /\ 10 * DigitValue(out[1]) + DigitValue(out[2]) = call.arg \div 60000
       /\ 1000 * DigitValue(out[4]) + 100 * DigitValue(out[5])
            + 10 * DigitValue(out[7]) + DigitValue(out[8]) < 6000

\* A value within four thousandths of a full minute has been formatted.
C38_Witness ==
  /\ call.fn = "formatTime"
  /\ call.ret # <<>>
  /\ call.arg % 60000 > 59995

(* --------------------------- the browser client ----------------------- *)

\* Every variable but client.
serverVars ==
  <<apiKey, jobs, emits, reply, submitsLeft, fs, crashed, pc, title, procs,
    chromeSt, browserOpen, ytdl, lastPercent, lastProgress, lastPoll, invoked,
    succeeded, clientCalls, call>>

\* Array.from(this.jobs.values()): the jobs in insertion order, which is the
\* order in which uuidv4 hands out the ids.
getAllJobs ==
  LET order == <<"j1", "j2">>
  IN [i \in 1..Cardinality(DOMAIN jobs) |-> jobs[order[i]]]

\* this.jobs.get(jobId), as an optional value.
getJob(jobId) == IF jobId \in DOMAIN jobs THEN <<jobs[jobId]>> ELSE <<>>

\* prevJobs.findIndex(job => job.id === id), counted from 1 (0: not found).
findIndex(prevJobs, id) ==
  IF \E i \in 1..Len(prevJobs) : prevJobs[i].id = id
  THEN CHOOSE i \in 1..Len(prevJobs) :
         prevJobs[i].id = id /\ \A k \in 1..i - 1 : prevJobs[k].id # id
  ELSE 0

\* The 'job_update' listener registered by the mount effect.  The effect has
\* no dependencies and runs once, so the activeJob the listener tests is the
\* one of the render that registered it (c.captured).
onJobUpdate(c, updatedJob) ==
  LET index == findIndex(c.jobs, updatedJob.id)
  IN [c EXCEPT
        !.jobs = IF index >= 1 THEN [@ EXCEPT ![index] = updatedJob]
                 ELSE Append(@, updatedJob),
        !.activeJob = IF c.captured # <<>> /\ c.captured[1].id = updatedJob.id
                      THEN <<updatedJob>> ELSE @]

\* The App has mounted in a browser: the first render had no active job and
\* no jobs; its effect has opened the socket, registered the listener and
\* called fetchJobs, whose request is on its way.  The server is configured
\* and has taken no submission yet.
InitClient ==
  /\ apiKey = "key"
  /\ jobs = <<>>
  /\ emits = <<>>
  /\ reply = [kind |-> "none", val |-> ""]
  /\ submitsLeft = 1
  /\ fs = {}
  /\ crashed = FALSE
  /\ pc = [j \in JobIds |-> "idle"]
  /\ title = [j \in JobIds |-> NoTitle]
  /\ procs = [j \in JobIds |-> {}]
  /\ chromeSt = [j \in JobIds |-> "none"]
  /\ browserOpen = [j \in JobIds |-> FALSE]
  /\ ytdl = [j \in JobIds |-> "none"]
  /\ lastPercent = [j \in JobIds |-> 0]
  /\ lastProgress = [j \in JobIds |-> 0]
  /\ lastPoll = [j \in JobIds |-> NoPoll]
  /\ invoked = [j \in JobIds |-> [a \in Attempts |-> 0]]
  /\ succeeded = [j \in JobIds |-> {}]
  /\ clientCalls = [j \in JobIds |-> {}]
  /\ client = [NoClient EXCEPT !.connected = TRUE, !.fetch = "sent"]
  /\ call = NoCall

\* The user submits the form: App.startTranscription posts the URL and the
\* route handler calls Transcriber.startTranscription.
PostTranscribe(videoUrl, timestamp) ==
  /\ client.start = "idle"
  /\ reply.kind = "none"
  /\ startTranscription(videoUrl, uuidv4, timestamp, TRUE)

\* The response of POST /api/transcribe arrives: an error response is shown,
\* otherwise the job is requested by its id.
PostDone ==
  /\ client.start = "idle"
  /\ reply.kind # "none"
  /\ client' = IF reply.kind = "throw"
               THEN [client EXCEPT !.error = <<reply.val>>, !.start = "failed"]
               ELSE [client EXCEPT !.start = "getting"]
  /\ UNCHANGED serverVars

\* GET /api/jobs/:jobId is served with the job as it is now.
GetJobRoute ==
  /\ client.start = "getting"
  /\ client' = [client EXCEPT !.got = getJob(reply.val), !.start = "replied"]
  /\ UNCHANGED serverVars

\* Its response arrives: setActiveJob(jobData.job).
StartDone ==
  /\ client.start = "replied"
  /\ client' = [client EXCEPT !.activeJob = client.got, !.start = "done"]
  /\ UNCHANGED serverVars

\* GET /api/jobs is served with the jobs as they are now.
GetJobsRoute ==
  /\ client.fetch = "sent"
  /\ client' = [client EXCEPT !.fetched = getAllJobs, !.fetch = "replied"]
  /\ UNCHANGED serverVars

\* Its response arrives: setJobs(data.jobs || []).
FetchDone ==
  /\ client.fetch = "replied"
  /\ client' = [client EXCEPT !.jobs = client.fetched, !.fetch = "done"]
  /\ UNCHANGED serverVars

\* The request fails: fetchJobs logs the error.
FetchFailed ==
  /\ client.fetch = "sent"
  /\ client' = [client EXCEPT !.fetch = "failed"]
  /\ UNCHANGED serverVars

\* The socket delivers its oldest 'job_update'.
OnJobUpdate ==
  /\ client.socket # <<>>
  /\ client' = onJobUpdate([client EXCEPT !.socket = Tail(@)], Head(client.socket))
  /\ UNCHANGED serverVars

\* The client, and a server on which the yt-dlp child of the simple strategy
\* starts and exits 0 with its output file, the transcription service may
\* refuse an upload or a submission, and the transcript can be saved.
NextClient ==
  \/ \E u \in Urls, t \in Times : PostTranscribe(u, t)
  \/ PostDone
  \/ GetJobRoute
  \/ StartDone
  \/ GetJobsRoute
  \/ FetchDone
  \/ FetchFailed
  \/ OnJobUpdate
  \/ \E j \in JobIds : \E p \in procs[j] : ProcClose(j, p, 0, TRUE, TRUE)
  \/ \E j \in JobIds, ok \in BOOLEAN : UploadDone(j, ok)
  \/ \E j \in JobIds, ok \in BOOLEAN : SubmitDone(j, ok)
  \/ \E j \in JobIds : PollCompleted(j, "ok", TRUE)

SpecClient == InitClient /\ [][NextClient]_vars

\* C36: while a job is the active job, a 'job_update' delivered for its id
\* replaces the active-job snapshot with the update.
C36_ActiveJobFollows ==
  [][(/\ OnJobUpdate
      /\ client.activeJob # <<>>
      /\ client.activeJob[1].id = Head(client.socket).id)
       => client'.activeJob = <<Head(client.socket)>>]_vars

\* The submitted job is the active job and an update for it is about to be
\* delivered.
C36_Witness ==
  /\ client.activeJob # <<>>
  /\ client.socket # <<>>
  /\ Head(client.socket).id = client.activeJob[1].id
  /\ Head(client.socket) # client.activeJob[1]

\* C37: the client's job list never holds two entries with one id, and once
\* the initial fetch is over and every broadcast has been delivered, each
\* entry is the job as the server has it.
C37_ListIsLatest ==
  /\ \A a, b \in 1..Len(client.jobs) :
       a # b => client.jobs[a].id # client.jobs[b].id
  /\ (client.socket = <<>> /\ client.fetch \in {"done", "failed"}) =>
       \A i \in 1..Len(client.jobs) :
         /\ client.jobs[i].id \in DOMAIN jobs
         /\ client.jobs[i] = jobs[client.jobs[i].id]

\* The fetched list has been applied after an update had been pushed and
\* delivered, and nothing is in flight.
C37_Witness ==
  /\ client.fetch = "done"
  /\ client.fetched # <<>>
  /\ client.socket = <<>>
  /\ \E j \in DOMAIN jobs : jobs[j] # NewJob(j, jobs[j].videoUrl)

(* ------------------------------ termination --------------------------- *)

\* The transcription service reports a terminal status for job j's
\* transcript.  A transcript that has failed stays failed.
RemoteTerminal(j) ==
  \/ /\ lastPoll[j].status # "error"
     /\ \E save \in {"ok", "fail1", "fail2"}, ok \in BOOLEAN : PollCompleted(j, save, ok)
  \/ \E e \in RemoteErrors : PollError(j, e)

\* A child of job j closes or errors: one that starts exits 0 with its
\* output file, one that cannot be started emits 'error'.
ProcSettles(j) ==
  \/ \E p \in procs[j], ok \in BOOLEAN : ProcError(j, p, ok)
  \/ \E p \in procs[j] : ProcClose(j, p, 0, TRUE, TRUE)

\* An event of job j's task is handled.
LiveEvent(j) ==
  \/ \E p \in procs[j], percent \in PercentTokens : StdoutData(j, p, percent)
  \/ ProcSettles(j)
  \/ \E ok \in BOOLEAN : UploadDone(j, ok)
  \/ \E ok \in BOOLEAN : SubmitDone(j, ok)
  \/ RemoteTerminal(j)
  \/ lastPoll[j].status # "error" /\ \E percent \in PollPercents : PollProcessing(j, percent)
  \/ lastPoll[j].status # "error" /\ PollRequestFailed(j)

NextLive ==
  \/ \E u \in Urls, t \in Times, ok \in BOOLEAN : startTranscription(u, uuidv4, t, ok)
  \/ \E j \in JobIds : LiveEvent(j)

\* The event loop runs every callback that is ready, every child closes or
\* errors, and the service does report a terminal status.
FairLive ==
  \A j \in JobIds :
    WF_vars(LiveEvent(j)) /\ WF_vars(ProcSettles(j)) /\ WF_vars(RemoteTerminal(j))

\* A configured server with empty output directories that takes up to two
\* submissions.
InitLive ==
  /\ apiKey = "key"
  /\ jobs = <<>>
  /\ emits = <<>>
  /\ reply = [kind |-> "none", val |-> ""]
  /\ submitsLeft = 2
  /\ fs = {}
  /\ crashed = FALSE
  /\ pc = [j \in JobIds |-> "idle"]
  /\ title = [j \in JobIds |-> NoTitle]
  /\ procs = [j \in JobIds |-> {}]
  /\ chromeSt = [j \in JobIds |-> "none"]
  /\ browserOpen = [j \in JobIds |-> FALSE]
  /\ ytdl = [j \in JobIds |-> "none"]
  /\ lastPercent = [j \in JobIds |-> 0]
  /\ lastProgress = [j \in JobIds |-> 0]
  /\ lastPoll = [j \in JobIds |-> NoPoll]
  /\ invoked = [j \in JobIds |-> [a \in Attempts |-> 0]]
  /\ succeeded = [j \in JobIds |-> {}]
  /\ clientCalls = [j \in JobIds |-> {}]
  /\ client = NoClient
  /\ call = NoCall

SpecLive == InitLive /\ [][NextLive]_vars /\ FairLive

\* C33: every submitted job eventually reaches Completed or Failed.
C33_EveryJobSettles ==
  \A j \in JobIds :
    (j \in DOMAIN jobs) ~> (j \in DOMAIN jobs /\ jobs[j].status \in Terminal)

\* The service has reported 'error' for a job's transcript and the job is
\* still Transcribing, its task polling.
C33_Witness ==
  \E j \in DOMAIN jobs :
    /\ lastPoll[j].status = "error"
    /\ jobs[j].status = "transcribing"
    /\ pc[j] = "poll"

====
